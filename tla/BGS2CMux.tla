------------------------------- MODULE BGS2CMux -------------------------------
(***************************************************************************)
(* BGS2CMux, the driver that puts the modem behind a multiplexer: it opens *)
(* the serial port, switches the modem over with AT commands, attaches the *)
(* kernel's n_gsm line discipline to the port and creates one device node  *)
(* per channel.  Node 1 is the one whose presence it looks for.            *)
(*                                                                         *)
(* PowerManager calls turnOn() and turnOff() in turn, which the module     *)
(* PowerManagerBGS2 shows.  The process may be killed at any step: the     *)
(* kernel then closes the port and detaches the discipline, while device   *)
(* nodes stay until the next boot.                                         *)
(***************************************************************************)
EXTENDS Naturals

CONSTANT NumNodes

ASSUME NumNodesAssumption == NumNodes \in Nat \ {0}

Node == 1..NumNodes
Missing == "missing"

\* EXIT_FAILURE, which get_major() returns when it cannot read /proc/devices, is
\* the major number of the memory devices.
Major == {"gsmtty", "mem"}

\* AT\Q3, AT, AT+IPR and AT+CMUX.
Commands == 4

VARIABLES
  node,        \* /dev/ttyGSM<n>: Missing, or the driver it leads to
  serial_fd,   \* "none" is -1; a number is kept after close()
  opened,      \* the descriptors the process has on the serial port
  attached,    \* is the n_gsm discipline attached to the port?
  major,       \* the local of cMuxOn()
  step,        \* the loop counter: of commands and of nodes
  called,      \* the last call of PowerManager
  pc

files == <<node, serial_fd, opened, attached>>
vars == <<files, major, step, called, pc>>

Pc == {"idle", "cleanup", "open", "configure", "at", "discipline", "conf",
       "major", "nodes", "remove", "close"}

\* Nodes may be left over from a process that was killed.
Init ==
  /\ node \in [Node -> Major \union {Missing}]
  /\ serial_fd = "none"
  /\ opened = 0
  /\ attached = FALSE
  /\ major = "gsmtty"
  /\ step = 1
  /\ called = "none"
  /\ pc = "idle"

\* Go on behind the current step, with a new loop if there is one.
GoTo(from, to) ==
  /\ pc = from
  /\ pc' = to
  /\ step' = 1

\* One turn of a loop up to last.
Loop(from, last, to) ==
  /\ pc = from
  /\ IF step < last THEN step' = step + 1 /\ UNCHANGED pc ELSE step' = 1 /\ pc' = to

\* Every failure makes cMuxOn() return MUX_ERROR at once and leaves everything as
\* it is.  turnOn() logs which of the two it was, and answers MUX_ON.
Fail(from) ==
  /\ GoTo(from, "idle")
  /\ UNCHANGED <<node, major, called>>

------------------------------------------------------------------------------
(* turnOn() and cMuxOn(). *)

\* Mutant: no early cleanup.
EnterTurnOnUncleaned ==
  /\ GoTo("idle", "open")
  /\ called' = "turnOn"
  /\ UNCHANGED <<files, major>>

\* performEarlyCleanup() removes the nodes if the first one exists.
EnterTurnOn ==
  /\ GoTo("idle", IF node[1] # Missing THEN "cleanup" ELSE "open")
  /\ called' = "turnOn"
  /\ UNCHANGED <<files, major>>

\* The caller's turn.
TurnOn == called # "turnOn" /\ EnterTurnOn

\* Mutant: a node that cannot be unlinked is tried again.
RemoveNodeAgain(from, to) ==
  /\ node[step] # Missing
  /\ Loop(from, NumNodes, to)
  /\ node' = [node EXCEPT ![step] = Missing]
  /\ UNCHANGED <<serial_fd, opened, attached, major, called>>

\* Mutant: the loop ends one node early.
RemoveNodeShort(from, to) ==
  /\ Loop(from, NumNodes - 1, to)
  /\ node' = [node EXCEPT ![step] = Missing]
  /\ UNCHANGED <<serial_fd, opened, attached, major, called>>

\* remove_nodes(): unlink fails for a node that is missing, and only then.
RemoveNode(from, to) ==
  /\ Loop(from, NumNodes, to)
  /\ node' = [node EXCEPT ![step] = Missing]
  /\ UNCHANGED <<serial_fd, opened, attached, major, called>>

OpenSerial ==
  /\ GoTo("open", "configure")
  /\ serial_fd' = "port"
  /\ opened' = opened + 1
  /\ UNCHANGED <<node, attached, major, called>>

OpenFails ==
  /\ Fail("open")
  /\ serial_fd' = "none"
  /\ UNCHANGED <<opened, attached>>

\* The line attributes.
Configure ==
  /\ GoTo("configure", "at")
  /\ UNCHANGED <<files, major, called>>

\* send_at_command() finds OK in what could be read one second later.
SendAt ==
  /\ Loop("at", Commands, "discipline")
  /\ UNCHANGED <<files, major, called>>

SetDiscipline ==
  /\ GoTo("discipline", "conf")
  /\ attached' = TRUE
  /\ UNCHANGED <<node, serial_fd, opened, major, called>>

\* GSMIOC_GETCONF and GSMIOC_SETCONF.
SetConf ==
  /\ GoTo("conf", "major")
  /\ UNCHANGED <<files, major, called>>

\* Mutant: the port is closed on an error, and its number kept.
StepFailsClosing ==
  /\ \E from \in {"configure", "at", "discipline", "conf", "major"} : Fail(from)
  /\ opened' = 0
  /\ attached' = FALSE
  /\ UNCHANGED serial_fd

\* An attribute, a command, an ioctl, or no line of the driver in /proc/devices.
StepFails ==
  /\ \E from \in {"configure", "at", "discipline", "conf", "major"} : Fail(from)
  /\ UNCHANGED <<serial_fd, opened, attached>>

GetMajor ==
  /\ GoTo("major", "nodes")
  /\ major' \in Major
  /\ UNCHANGED <<files, called>>

\* make_nodes(): mknod fails for a node that exists, or for another reason; the
\* node is skipped with a warning.  cMuxOn() returns MUX_ON in any case.
MakeNode ==
  /\ Loop("nodes", NumNodes, "idle")
  /\ \/ node[step] = Missing /\ node' = [node EXCEPT ![step] = major]
     \/ UNCHANGED node
  /\ UNCHANGED <<serial_fd, opened, attached, major, called>>

------------------------------------------------------------------------------
(* turnOff(). *)

EnterTurnOff ==
  /\ GoTo("idle", "remove")
  /\ called' = "turnOff"
  /\ UNCHANGED <<files, major>>

TurnOff == called # "turnOff" /\ EnterTurnOff

\* With the last descriptor of the port its discipline goes.
CloseSerial ==
  /\ GoTo("close", "idle")
  /\ opened' = IF serial_fd = "port" /\ opened > 0 THEN opened - 1 ELSE opened
  /\ attached' = (attached /\ opened' > 0)
  /\ UNCHANGED <<node, serial_fd, major, called>>

------------------------------------------------------------------------------
\* The process is killed, with the machine or without it, and started again.
Restart ==
  /\ pc' = "idle"
  /\ step' = 1
  /\ serial_fd' = "none"
  /\ opened' = 0
  /\ attached' = FALSE
  /\ called' = "none"
  /\ node' \in {node, [n \in Node |-> Missing]}
  /\ UNCHANGED major

DriverSteps ==
  \/ RemoveNode("cleanup", "open") \/ OpenSerial \/ OpenFails
  \/ Configure \/ SendAt \/ SetDiscipline \/ SetConf \/ StepFails
  \/ GetMajor \/ MakeNode \/ RemoveNode("remove", "close") \/ CloseSerial

Next == TurnOn \/ TurnOff \/ DriverSteps \/ Restart

\* A call goes on: every sleep ends, and the port, opened with O_NDELAY, makes no
\* read wait.  PowerManager owes no call.
Spec == Init /\ [][Next]_vars /\ WF_vars(DriverSteps)

------------------------------------------------------------------------------
(* Properties. *)

\* Every variable has its type.
TypeOK ==
  /\ node \in [Node -> Major \union {Missing}]
  /\ serial_fd \in {"none", "port"}
  /\ opened \in {0, 1}
  /\ attached \in BOOLEAN
  /\ major \in Major
  /\ step \in Nat \ {0}
  /\ pc \in {"cleanup", "nodes", "remove"} => step \in Node
  /\ called \in {"none", "turnOn", "turnOff"}
  /\ pc \in Pc

\* close() in turnOff() gets the descriptor of the port, if it is open, or -1, and
\* never a number that by then may belong to another file: cMuxOn() leaves the
\* port open on every error, and turnOff() does not reset serial_fd.
ClosesItsOwn == pc \in {"remove", "close"} => (serial_fd = "port" <=> opened = 1)

\* Once a call has begun to remove nodes, the first one exists only while the
\* discipline is attached: whatever an earlier run has left, and wherever turnOn()
\* fails, nobody dials on a node without a multiplexer behind it.
FirstNodeHasMux ==
  node[1] # Missing =>
    attached \/ called = "none" \/ (pc \in {"cleanup", "remove"} /\ step = 1)

\* When turnOff() has returned no node is left, those of earlier runs included.
TurnedOffLeavesNoNode == pc = "idle" /\ called = "turnOff" => \A n \in Node : node[n] = Missing

\* turnOn() and turnOff() return, which PowerManager counts on: it holds its
\* eventMutex meanwhile.
CallsReturn == pc # "idle" ~> pc = "idle"
===============================================================================
