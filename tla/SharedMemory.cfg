SPECIFICATION Spec
CONSTANTS
  Process <- SgmProcess
  Thread <- SgmThread
  ProcessOf <- SgmProcessOf
  Free = Free
  Dead = Dead
INVARIANTS AccessOwnsMutex FlagsTellLastSet SizedBeforeUse
PROPERTY AccessGranted
