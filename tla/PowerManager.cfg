\* A boot or a restart (shared memory holds whatever an earlier run left there), and
\* a driver that may answer whatever the interface allows.
CONSTANTS
  Leftover = {TRUE, FALSE}
  MuxDriver <- MuxResult
SPECIFICATION Spec
INVARIANTS
  CmuxReadyHeals
  ModemReadyHeals
  NoCircularWait
PROPERTIES
  EdgeReachesStateMachine
  NotifiedChangeIsFollowed
