\* Two runs of the sensor, two places at the listening socket, other clients.  The
\* sensor is started MaxRuns times, so that everything may stop.
CONSTANTS
  MaxRuns = 2
  MaxListenIterationsCount = 2
  MaxDescriptors = 2
  MaxBacklog = 2
  AcceptReturns = {"EAGAIN", "OTHER"}
SPECIFICATION PipelineSpec
INVARIANTS
  PipelineTypeOK
  CompensatedWithOwnTemperature
PROPERTIES
  ImplementsFeed
  SensorRunEnds
CHECK_DEADLOCK FALSE
