---------------------------- MODULE MCSharedMemory ----------------------------
(* SharedMemory with the processes and threads of the system. *)
EXTENDS SharedMemory

\* SGMsink has no accessing thread: it only reads.
SgmProcess == {"SGMpowermgr", "SGMsink"}
SgmThread == {"main", "controller"}
SgmProcessOf == [t \in SgmThread |-> "SGMpowermgr"]
===============================================================================
