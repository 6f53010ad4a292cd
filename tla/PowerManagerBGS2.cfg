\* PowerManager with the driver BGS2CMux; the process is killed at any step.
CONSTANTS
  Leftover = {TRUE, FALSE}
  MuxDriver <- BGS2Driver
  NumNodes = 1
SPECIFICATION SystemSpec
INVARIANTS
  SystemTypeOK
  ReadyNodeHasMux
  OffMeansReleased
PROPERTIES
  ImplementsDriver
