\* Any stack garbage in the uninitialised atomics; two subscribers.
CONSTANTS
  mqtt = mqtt
  other = other
  Subscribers = {mqtt, other}
  StackGarbage = {TRUE, FALSE}
SPECIFICATION Spec
INVARIANTS
  TypeOK
  NotifiedMatchesState
  LostMeansHungUp
  DestroyedQuiescent
  HangsInMonitorTickOnly
PROPERTIES
  WatchedWhileConnected
  MonitorOutlivesUse
  TerminatedJoins
  CallsReturnWhileDeviceStable
  SampledLossIsReported
  ImplementsProvider
